---- MODULE Spec2Model ----
(***************************************************************************)
(* Model of package flock (src/flock.go): timed, advisory file locks.      *)
(*                                                                         *)
(* A Locker value maps a path to a lockfile and runs Lock, Unlock and      *)
(* Refresh against the filesystem.  Every call is a sequence of separate   *)
(* filesystem operations (os.Stat, os.Remove, os.OpenFile, File.Close,     *)
(* os.Chtimes) and clock reads (time.Now); callers interleave between any  *)
(* two of them.  Time is counted in seconds.                               *)
(***************************************************************************)
EXTENDS Integers, Sequences, FiniteSets, TLC

\* ------------------------------------------------------------------ bounds
MaxCalls == 3
MaxTime == 61

Callers == {1, 2}
Paths == {"a", "b"}
\* Amounts by which the clock advances between two steps: they reach lockfile
\* ages below, exactly at and just above both lock durations in use.
TickSteps == {30, 31}

\* --------------------------------------------------------------- the code
\* var defaultDur = time.Minute
defaultDur == 60

\* The unset Lockfile field (a nil func).
NilFunc == << >>
\* A configured Lockfile function: every path shares one lockfile.
SharedLockfile == [p \in Paths |-> "b.lock"]

\* The Locker values in use: the zero value, and one with both fields set.
Lockers == {[Lockfile |-> NilFunc, LockDur |-> 0],
            [Lockfile |-> SharedLockfile, LockDur |-> 30]}

\* Mutant of lockfile: the configured Lockfile function is ignored.
lockfileDefault(l, p) == p \o ".lock"

\* func (l Locker) lockfile(path string) string
lockfile(l, p) ==
    IF l.Lockfile # NilFunc THEN l.Lockfile[p] ELSE p \o ".lock"

\* Mutant of lockDur: the configured LockDur is ignored.
lockDurDefault(l) == defaultDur

\* func (l Locker) lockDur() time.Duration
lockDur(l) ==
    IF l.LockDur # 0 THEN l.LockDur ELSE defaultDur

Lockfiles == {lockfile(l, p) : l \in Lockers, p \in Paths}

\* A directory entry: absent, or a file with its modification time (and, as
\* history, the time it was created).
NoFile == [exists |-> FALSE]
File(t, b) == [exists |-> TRUE, mtime |-> t, born |-> b]

\* Mutant of Expired: After in place of Before.
ExpiredAfter(l, info, t) == info.mtime + (IF l.LockDur # 0 THEN l.LockDur ELSE defaultDur) > t

\* info.ModTime().Add(l.lockDur()).Before(time.Now())
Expired(l, info, t) == info.mtime + lockDur(l) < t

VARIABLES
    now,      \* the clock, time.Now()
    fs,       \* the directory: lockfile path -> NoFile or File(mtime, born)
    locker,   \* the Locker value each caller uses
    pc,       \* each caller's position inside its call, "idle" between calls
    op,       \* the method of the caller's current (or last) call
    path,     \* its path argument
    info,     \* the os.FileInfo its os.Stat returned
    tnow,     \* Refresh's local variable now
    result,   \* what the caller's last call returned
    calls,    \* history: number of calls started so far
    pre,      \* history: the state of the lockfile when the call started
    solo,     \* history: no other caller has operated on the lockfile since the call started
    lease,    \* history: the lock each caller has acquired and not given up
    reclaimed \* history: the call has removed a lockfile it judged expired

vars == <<now, fs, locker, pc, op, path, info, tnow, result,
          calls, pre, solo, lease, reclaimed>>

prog == <<pc, op, path, info, tnow, result>>
hist == <<calls, pre, solo, lease, reclaimed>>

\* History: how a caller with Locker l finds the directory entry f at time t.
\*   age     "absent", or the file's age against the lock duration:
\*           "live" (younger), "edge" (exactly as old), "expired" (older);
\*   outlived  the file is older than the lock duration counted from its creation;
\*   file    the entry itself.
Seen(l, f, t) ==
    [age |-> IF ~f.exists THEN "absent"
             ELSE IF t - f.mtime < lockDur(l) THEN "live"
             ELSE IF t - f.mtime = lockDur(l) THEN "edge"
             ELSE "expired",
     outlived |-> f.exists /\ t - f.born > lockDur(l),
     file |-> f]

\* The lockfile of the caller's current (or last) call.
Marker(c) == lockfile(locker[c], path[c])

Init ==
    /\ now = 0
    /\ fs = [m \in Lockfiles |-> NoFile]
    /\ locker \in [Callers -> Lockers]
    /\ pc = [c \in Callers |-> "idle"]
    /\ op = [c \in Callers |-> "none"]
    /\ path = [c \in Callers |-> "a"]
    /\ info = [c \in Callers |-> NoFile]
    /\ tnow = [c \in Callers |-> 0]
    /\ result = [c \in Callers |-> "nil"]
    /\ calls = 0
    /\ pre = [c \in Callers |-> Seen(locker[c], NoFile, 0)]
    /\ solo = [c \in Callers |-> TRUE]
    /\ lease = [c \in Callers |-> {}]
    /\ reclaimed = [c \in Callers |-> FALSE]

\* ------------------------------------------------------------ bookkeeping
\* History kept when caller c starts method o on path p.
Begin(c, o, p) ==
    LET m == lockfile(locker[c], p) IN
    /\ pc[c] = "idle"
    /\ calls < MaxCalls
    /\ op' = [op EXCEPT ![c] = o]
    /\ path' = [path EXCEPT ![c] = p]
    /\ calls' = calls + 1
    /\ pre' = [pre EXCEPT ![c] = Seen(locker[c], fs[m], now)]
    /\ solo' = [d \in Callers |->
                  IF d = c
                  THEN \A e \in Callers \ {c} : pc[e] = "idle" \/ Marker(e) # m
                  ELSE solo[d] /\ Marker(d) # m]
    /\ reclaimed' = [reclaimed EXCEPT ![c] = FALSE]

\* The call of caller c returns r.
Return(c, r) ==
    /\ pc' = [pc EXCEPT ![c] = "idle"]
    /\ result' = [result EXCEPT ![c] = r]
    /\ info' = [info EXCEPT ![c] = NoFile]
    /\ tnow' = [tnow EXCEPT ![c] = 0]

\* The call of caller c moves on to position q.
Goto(c, q) ==
    /\ pc' = [pc EXCEPT ![c] = q]
    /\ info' = [info EXCEPT ![c] = NoFile]
    /\ UNCHANGED <<result, tnow>>

\* Mutant of Resume: Lock, like Refresh, carries on after ErrLocked.
ResumeThroughLocked(c, o, err) ==
    IF err # "nil" /\ err # "ErrLocked" THEN Return(c, err)
    ELSE Goto(c, IF o = "Lock" THEN "open" ELSE "now")

\* Mutant of Resume: Refresh carries on whatever removeIfExpired returned.
ResumeRefreshAlways(c, o, err) ==
    IF o = "Lock"
    THEN IF err # "nil" THEN Return(c, err) ELSE Goto(c, "open")
    ELSE Goto(c, "now")

\* What Lock (lines 38-41) and Refresh (lines 82-85) do with the value err
\* that removeIfExpired returned.
Resume(c, o, err) ==
    IF o = "Lock"
    THEN IF err # "nil" THEN Return(c, err) ELSE Goto(c, "open")
    ELSE IF err # "nil" /\ err # "ErrLocked" THEN Return(c, err) ELSE Goto(c, "now")

\* The lock a caller holds: it runs from the moment Lock returned nil until
\* the caller's lock duration has passed since it created or last refreshed
\* the lockfile.  It is counted no longer once anyone calls Unlock on the
\* lockfile, or another caller's Refresh rewrites the lockfile's timestamp.
Holds(c, m) ==
    /\ ~(pc[c] = "close" /\ Marker(c) = m)
    /\ \E h \in lease[c] : h.file = m /\ now - h.since < lockDur(locker[c])

\* --------------------------------------------------------------- actions
\* Lock / Refresh up to os.Stat in removeIfExpired (lines 37-38, 81-82, 54-60).
Stat(c, o, p) ==
    LET m == lockfile(locker[c], p) IN
    /\ Begin(c, o, p)
    /\ IF fs[m] = NoFile
       THEN Resume(c, o, "nil")                  \* os.ErrNotExist: return nil
       ELSE /\ pc' = [pc EXCEPT ![c] = "expired"]
            /\ info' = [info EXCEPT ![c] = fs[m]]
            /\ UNCHANGED <<result, tnow>>
    /\ UNCHANGED <<now, fs, locker, lease>>

\* Mutant of CheckExpired: Refresh does not look at the file's age.
CheckExpiredLockOnly(c) ==
    /\ pc[c] = "expired"
    /\ IF op[c] = "Lock" /\ Expired(locker[c], info[c], now)
       THEN Goto(c, "remove")
       ELSE Resume(c, op[c], "ErrLocked")
    /\ UNCHANGED <<now, fs, locker, op, path, hist>>

\* removeIfExpired, line 61: compare the file's age with time.Now().
CheckExpired(c) ==
    /\ pc[c] = "expired"
    /\ IF Expired(locker[c], info[c], now)
       THEN Goto(c, "remove")
       ELSE Resume(c, op[c], "ErrLocked")
    /\ UNCHANGED <<now, fs, locker, op, path, hist>>

\* removeIfExpired, line 62: return os.Remove(lockfile).
Remove(c) ==
    LET m == Marker(c) IN
    /\ pc[c] = "remove"
    /\ IF fs[m] # NoFile
       THEN /\ fs' = [fs EXCEPT ![m] = NoFile]
            /\ reclaimed' = [reclaimed EXCEPT ![c] = TRUE]
            /\ Resume(c, op[c], "nil")
       ELSE /\ Resume(c, op[c], "ErrNotExist")
            /\ UNCHANGED <<fs, reclaimed>>
    /\ UNCHANGED <<now, locker, op, path, calls, pre, solo, lease>>

\* Mutant of Open: O_EXCL is missing, an existing lockfile is opened.
OpenNoExcl(c) ==
    LET m == Marker(c) IN
    /\ pc[c] = "open"
    /\ fs' = [fs EXCEPT ![m] = IF @ = NoFile THEN File(now, now) ELSE @]
    /\ Goto(c, "close")
    /\ lease' = [lease EXCEPT ![c] = {[file |-> m, since |-> now]}]
    /\ UNCHANGED <<now, locker, op, path, calls, pre, solo, reclaimed>>

\* Mutant of Open: when the lockfile exists, Lock removes it and tries again.
OpenRetry(c) ==
    LET m == Marker(c) IN
    /\ pc[c] = "open"
    /\ IF fs[m] # NoFile
       THEN /\ Goto(c, "remove")
            /\ UNCHANGED <<fs, lease>>
       ELSE /\ fs' = [fs EXCEPT ![m] = File(now, now)]
            /\ Goto(c, "close")
            /\ lease' = [lease EXCEPT ![c] = {[file |-> m, since |-> now]}]
    /\ UNCHANGED <<now, locker, op, path, calls, pre, solo, reclaimed>>

\* Lock, lines 43-49: os.OpenFile with O_CREATE|O_EXCL.
Open(c) ==
    LET m == Marker(c) IN
    /\ pc[c] = "open"
    /\ IF fs[m] # NoFile
       THEN /\ Return(c, "ErrLocked")            \* os.ErrExist
            /\ UNCHANGED <<fs, lease>>
       ELSE /\ fs' = [fs EXCEPT ![m] = File(now, now)]
            /\ Goto(c, "close")
            /\ lease' = [lease EXCEPT ![c] = {[file |-> m, since |-> now]}]
    /\ UNCHANGED <<now, locker, op, path, calls, pre, solo, reclaimed>>

\* Lock, line 50: return f.Close().
Close(c) ==
    /\ pc[c] = "close"
    /\ Return(c, "nil")
    /\ UNCHANGED <<now, fs, locker, op, path, hist>>

\* Mutant of Unlock: the error of os.Remove is returned as it is.
UnlockStrict(c, p) ==
    LET m == lockfile(locker[c], p) IN
    /\ Begin(c, "Unlock", p)
    /\ fs' = [fs EXCEPT ![m] = NoFile]
    /\ Return(c, IF fs[m] = NoFile THEN "ErrNotExist" ELSE "nil")
    /\ lease' = [d \in Callers |-> {h \in lease[d] : h.file # m}]
    /\ UNCHANGED <<now, locker>>

\* Mutant of Unlock: only a lockfile past its lock duration is removed.
UnlockExpiredOnly(c, p) ==
    LET m == lockfile(locker[c], p) IN
    /\ Begin(c, "Unlock", p)
    /\ fs' = [fs EXCEPT ![m] = IF @ # NoFile /\ ~Expired(locker[c], @, now)
                                THEN @ ELSE NoFile]
    /\ Return(c, "nil")
    /\ lease' = [d \in Callers |-> {h \in lease[d] : h.file # m}]
    /\ UNCHANGED <<now, locker>>

\* Unlock, lines 69-76.
Unlock(c, p) ==
    LET m == lockfile(locker[c], p) IN
    /\ Begin(c, "Unlock", p)
    /\ fs' = [fs EXCEPT ![m] = NoFile]            \* removed, or os.ErrNotExist
    /\ Return(c, "nil")
    /\ lease' = [d \in Callers |-> {h \in lease[d] : h.file # m}]
    /\ UNCHANGED <<now, locker>>

\* Refresh, line 86: now := time.Now().
ReadNow(c) ==
    /\ pc[c] = "now"
    /\ pc' = [pc EXCEPT ![c] = "chtimes"]
    /\ tnow' = [tnow EXCEPT ![c] = now]
    /\ UNCHANGED <<now, fs, locker, op, path, info, result, hist>>

\* Mutant of Chtimes: the modification time is left as it is.
ChtimesKeeps(c) ==
    LET m == Marker(c) IN
    /\ pc[c] = "chtimes"
    /\ Return(c, IF fs[m] # NoFile THEN "nil" ELSE "ErrNotLocked")
    /\ UNCHANGED <<now, fs, locker, op, path, calls, pre, solo, lease, reclaimed>>

\* Mutant of Chtimes: a missing lockfile is created, as by touch(1).
ChtimesCreates(c) ==
    LET m == Marker(c) IN
    /\ pc[c] = "chtimes"
    /\ fs' = [fs EXCEPT ![m] = File(tnow[c], IF @ # NoFile THEN @.born ELSE tnow[c])]
    /\ Return(c, "nil")
    /\ UNCHANGED <<now, locker, op, path, calls, pre, solo, lease, reclaimed>>

\* Refresh, lines 87-91: os.Chtimes(lockfile, now, now).
Chtimes(c) ==
    LET m == Marker(c) IN
    /\ pc[c] = "chtimes"
    /\ IF fs[m] # NoFile
       THEN /\ fs' = [fs EXCEPT ![m] = File(tnow[c], @.born)]
            /\ Return(c, "nil")
            /\ lease' = [d \in Callers |->
                           IF d # c THEN {h \in lease[d] : h.file # m}
                           ELSE IF Holds(c, m) THEN {[file |-> m, since |-> tnow[c]]}
                           ELSE lease[c]]
       ELSE /\ Return(c, "ErrNotLocked")         \* os.ErrNotExist
            /\ UNCHANGED <<fs, lease>>
    /\ UNCHANGED <<now, locker, op, path, calls, pre, solo, reclaimed>>

\* Time passes.  A lock whose duration has run out is held no longer.
Tick ==
    /\ \E d \in TickSteps :
          /\ now + d <= MaxTime
          /\ now' = now + d
          /\ lease' = [c \in Callers |->
                         {h \in lease[c] : now + d - h.since < lockDur(locker[c])}]
    /\ UNCHANGED <<fs, locker, prog, calls, pre, solo, reclaimed>>

\* One step of caller c.
CallerStep(c) ==
    \/ \E p \in Paths : Stat(c, "Lock", p)
    \/ \E p \in Paths : Stat(c, "Refresh", p)
    \/ \E p \in Paths : Unlock(c, p)
    \/ CheckExpired(c)
    \/ Remove(c)
    \/ Open(c)
    \/ Close(c)
    \/ ReadNow(c)
    \/ Chtimes(c)

Next ==
    \/ \E c \in Callers : CallerStep(c)
    \/ Tick

Spec == Init /\ [][Next]_vars

\* ------------------------------------------------- unexpected storage errors
\* In Spec the filesystem fails only with "not found" and "already exists".
\* SpecIO adds the other failures: any storage operation may fail with an
\* error ("EIO") that is none of the two, and changes nothing when it does.

\* What the call returns when the storage operation at position q fails
\* with err: Unlock (lines 72-75), os.OpenFile (lines 44-49), f.Close
\* (line 50), os.Chtimes (lines 88-91).
Failed(q, err) ==
    CASE q = "unlock"  -> IF err = "ErrNotExist" THEN "nil" ELSE err
      [] q = "open"    -> IF err = "ErrExist" THEN "ErrLocked" ELSE err
      [] q = "close"   -> err
      [] q = "chtimes" -> IF err = "ErrNotExist" THEN "ErrNotLocked" ELSE err

\* os.Stat fails (lines 58-60): removeIfExpired returns the error to the call.
StatError(c, o, p) ==
    /\ Begin(c, o, p)
    /\ Resume(c, o, "EIO")
    /\ UNCHANGED <<now, fs, locker, lease>>

\* os.Remove in Unlock fails (line 75).
UnlockError(c, p) ==
    LET m == lockfile(locker[c], p) IN
    /\ Begin(c, "Unlock", p)
    /\ Return(c, Failed("unlock", "EIO"))
    /\ lease' = [d \in Callers |-> {h \in lease[d] : h.file # m}]
    /\ UNCHANGED <<now, fs, locker>>

\* os.Remove (line 62), os.OpenFile (lines 47-49), f.Close (line 50) or
\* os.Chtimes (line 91) fails.  The error of os.Remove goes back to the call
\* through removeIfExpired.  When f.Close fails the lockfile has been created
\* all the same.
StepError(c) ==
    /\ pc[c] \in {"remove", "open", "close", "chtimes"}
    /\ IF pc[c] = "remove"
       THEN Resume(c, op[c], "EIO")
       ELSE Return(c, Failed(pc[c], "EIO"))
    /\ lease' = [lease EXCEPT ![c] = IF pc[c] = "close" THEN {} ELSE @]
    /\ UNCHANGED <<now, fs, locker, op, path, calls, pre, solo, reclaimed>>

IOError(c) ==
    \/ \E p \in Paths : StatError(c, "Lock", p)
    \/ \E p \in Paths : StatError(c, "Refresh", p)
    \/ \E p \in Paths : UnlockError(c, p)
    \/ StepError(c)

NextIO ==
    \/ Next
    \/ \E c \in Callers : IOError(c)

SpecIO == Init /\ [][NextIO]_vars

\* ------------------------------------------------------------ properties
\* Caller c has made a call of method o, and the call has returned.
Did(c, o) == pc[c] = "idle" /\ op[c] = o

\* Every caller has made at most one call.
OneCallEach == calls = Cardinality({c \in Callers : op[c] # "none"})

\* C1: for one lockfile, no two distinct callers (using the same lock
\* duration) hold the lock at the same time, in any interleaving of the stat,
\* remove and create steps of their Lock calls.
MutualExclusion ==
    \A c, d \in Callers : \A m \in Lockfiles :
        (c # d /\ lockDur(locker[c]) = lockDur(locker[d]))
            => ~(Holds(c, m) /\ Holds(d, m))

\* The callers whose one call is Lock on lockfile m.
Racers(m) == {c \in Callers : op[c] = "Lock" /\ Marker(c) = m}

\* The directory was empty, nothing but Lock has been called, every caller has
\* called at most once, the callers of Lock on m have all returned, and less
\* than their lock duration has passed since the start.
RaceOver(m) ==
    /\ OneCallEach
    /\ \A c \in Callers : op[c] \in {"none", "Lock"}
    /\ Racers(m) # {}
    /\ \A c \in Racers(m) : pc[c] = "idle" /\ now < lockDur(locker[c])

\* C2: when callers race to Lock a path whose lockfile does not exist, exactly
\* one call returns nil and every other call returns ErrLocked.
RaceFromFree ==
    \A m \in Lockfiles :
        RaceOver(m) =>
            \E w \in Racers(m) :
                /\ result[w] = "nil"
                /\ \A c \in Racers(m) \ {w} : result[c] = "ErrLocked"

\* Two callers both found no lockfile, raced to create it, and one lost.
RaceFromFreeWitness ==
    \E m \in Lockfiles :
        /\ RaceOver(m)
        /\ Racers(m) = Callers
        /\ \A c \in Callers : pre[c].age = "absent"
        /\ \E c \in Callers : result[c] = "ErrLocked"

\* C3: with a filesystem that fails only with "not found" and "already
\* exists", every Lock returns nil or ErrLocked and every Refresh returns nil
\* or ErrNotLocked, in any interleaving.
OnlyLockErrors ==
    \A c \in Callers :
        /\ Did(c, "Lock") => result[c] \in {"nil", "ErrLocked"}
        /\ Did(c, "Refresh") => result[c] \in {"nil", "ErrNotLocked"}

\* C4 as stated: Refresh of a lockfile whose age is the lock duration or more,
\* run alone, returns ErrNotLocked and leaves no lockfile.
NoResurrectionFromEdge ==
    \A c \in Callers :
        (Did(c, "Refresh") /\ solo[c] /\ pre[c].age \in {"edge", "expired"})
            => (result[c] = "ErrNotLocked" /\ fs[Marker(c)] = NoFile)

\* C4, amended: Refresh of a lockfile that is older than the lock duration,
\* run alone, returns ErrNotLocked and leaves no lockfile: the expired
\* lockfile is removed, never touched.
NoResurrection ==
    \A c \in Callers :
        (Did(c, "Refresh") /\ solo[c] /\ pre[c].age = "expired")
            => (result[c] = "ErrNotLocked" /\ fs[Marker(c)] = NoFile)

\* A caller locked the path, its lock ran out, and its Refresh was refused.
NoResurrectionWitness ==
    \E c \in Callers :
        /\ Did(c, "Refresh") /\ solo[c] /\ pre[c].age = "expired"
        /\ pre[c].file.born = pre[c].file.mtime
        /\ result[c] = "ErrNotLocked"

\* The lockfile a Lock call of c leaves when it reclaims an expired one: newly
\* created, after the old one had expired.
FreshMarker(c) ==
    LET f == fs[Marker(c)] IN
    /\ f.exists
    /\ f.born = f.mtime
    /\ f.mtime > pre[c].file.mtime + lockDur(locker[c])

\* C5 as stated: Lock of a path whose lockfile has reached the age of the lock
\* duration or more, run alone, returns nil and leaves a fresh lockfile.
ReclaimFromEdge ==
    \A c \in Callers :
        (Did(c, "Lock") /\ solo[c] /\ pre[c].age \in {"edge", "expired"})
            => (result[c] = "nil" /\ FreshMarker(c))

\* C5, amended: Lock of a path whose lockfile is older than the lock duration,
\* run alone, returns nil and leaves a fresh lockfile.
Reclaim ==
    \A c \in Callers :
        (Did(c, "Lock") /\ solo[c] /\ pre[c].age = "expired")
            => (result[c] = "nil" /\ FreshMarker(c))

\* One caller's lock was left to expire and the other caller then took it.
ReclaimWitness ==
    \E c, d \in Callers :
        /\ c # d
        /\ Did(d, "Lock") /\ result[d] = "nil" /\ Marker(d) = Marker(c)
        /\ Did(c, "Lock") /\ solo[c] /\ pre[c].age = "expired"
        /\ result[c] = "nil"

\* C6: a Refresh that returns nil has set the lockfile's timestamp to the time
\* it read, and a Lock run alone while less than the lock duration has passed
\* since the lockfile's timestamp returns ErrLocked and leaves the lockfile as
\* it was, however long ago the lockfile was created.
RefreshExtends ==
    /\ [][\A c \in Callers :
            (pc[c] = "chtimes" /\ pc'[c] = "idle" /\ result'[c] = "nil")
                => (fs'[Marker(c)].exists /\ fs'[Marker(c)].mtime = tnow[c])]_vars
    /\ [](\A c \in Callers :
            (/\ Did(c, "Lock") /\ solo[c]
             /\ pre[c].file.exists
             /\ now - pre[c].file.mtime < lockDur(locker[c]))
                => (result[c] = "ErrLocked" /\ fs[Marker(c)] = pre[c].file))

\* One caller locked and later refreshed; the other caller's Lock, made when
\* the lock duration counted from the first Lock had run out, was refused.
RefreshExtendsWitness ==
    \E c, d \in Callers :
        /\ c # d
        /\ Did(d, "Refresh") /\ result[d] = "nil" /\ Marker(d) = Marker(c)
        /\ Did(c, "Lock") /\ solo[c]
        /\ pre[c].age = "live" /\ pre[c].outlived
        /\ result[c] = "ErrLocked"

\* C7: Unlock never reports an error; on a path that is not locked it leaves
\* the directory as it is; and whatever it finds, it leaves no lockfile, so a
\* second Unlock finds and leaves what the first one left.
IdempotentUnlock ==
    /\ [][\A c \in Callers : \A p \in Paths :
            Unlock(c, p) =>
                /\ result'[c] = "nil"
                /\ fs[lockfile(locker[c], p)] = NoFile => fs' = fs]_vars
    /\ [](\A c \in Callers :
            Did(c, "Unlock") =>
                /\ result[c] = "nil"
                /\ solo[c] => fs[Marker(c)] = NoFile)

\* One caller unlocked a locked path and the other unlocked it again.
IdempotentUnlockWitness ==
    \E c, d \in Callers :
        /\ c # d /\ Marker(d) = Marker(c)
        /\ Did(c, "Unlock") /\ pre[c].age # "absent" /\ result[c] = "nil"
        /\ Did(d, "Unlock") /\ pre[d].age = "absent" /\ result[d] = "nil"
        /\ solo[d]

\* The lockfile the calls of c on path p are to use: the one its configured
\* Lockfile function names, or p.lock when none is configured.
Target(c, p) ==
    IF locker[c].Lockfile = NilFunc THEN p \o ".lock" ELSE locker[c].Lockfile[p]

\* C8: a step of a call on path p reads and writes only the lockfile that the
\* caller's naming function gives for p: no other directory entry changes,
\* os.Stat reports that lockfile, and creating, removing and touching succeed
\* or fail by that lockfile alone.
OnlyDerivedMarker ==
    [][\A c \in Callers :
         CallerStep(c) =>
            LET q == Target(c, path'[c]) IN
            /\ \A m \in Lockfiles \ {q} : fs'[m] = fs[m]
            /\ (pc[c] = "idle" /\ pc'[c] = "expired") => info'[c] = fs[q]
            /\ (pc[c] = "idle" /\ pc'[c] \in {"open", "now"}) => fs[q] = NoFile
            /\ pc[c] = "remove" => fs'[q] = NoFile
            /\ pc[c] = "open" => (fs'[q].exists /\ (pc'[c] = "idle" <=> fs[q].exists))
            /\ pc[c] = "chtimes" => (result'[c] = "ErrNotLocked" <=> fs[q] = NoFile)
            /\ op'[c] = "Unlock" => fs'[q] = NoFile]_vars

\* A caller with a configured naming function was refused path "a" because
\* the other caller holds path "b", which the function maps to the same
\* lockfile, while the lockfile a.lock exists and is left alone.
OnlyDerivedMarkerWitness ==
    \E c, d \in Callers :
        /\ locker[c].Lockfile # NilFunc
        /\ Did(c, "Lock") /\ path[c] = "a" /\ result[c] = "ErrLocked"
        /\ Did(d, "Lock") /\ path[d] = "b" /\ result[d] = "nil"
        /\ Target(c, "a") = Target(d, "b")
        /\ fs["a.lock"].exists

\* The lock duration a caller's Locker stands for.
Lease(c) == IF locker[c].LockDur = 0 THEN 60 ELSE locker[c].LockDur

\* C9: in Lock and in Refresh alike, a lockfile is reclaimed exactly when it
\* is older than the caller's lock duration, which is 60 seconds for a Locker
\* with no LockDur and the configured LockDur otherwise.
DefaultLease ==
    [][\A c \in Callers :
         (pc[c] = "expired" /\ pc'[c] # "expired") =>
            /\ pc'[c] = "remove" <=> now - info[c].mtime > Lease(c)
            /\ pc'[c] # "remove" =>
                  IF op[c] = "Lock"
                  THEN pc'[c] = "idle" /\ result'[c] = "ErrLocked"
                  ELSE pc'[c] = "now"]_vars

\* A zero-value Locker refused a path whose lockfile a Locker with a shorter
\* configured duration then reclaimed at the same age.
DefaultLeaseWitness ==
    \E c, d \in Callers :
        /\ locker[c].LockDur = 0 /\ locker[d].LockDur # 0
        /\ Marker(c) = Marker(d)
        /\ Did(c, "Lock") /\ result[c] = "ErrLocked" /\ pre[c].age = "live"
        /\ Did(d, "Lock") /\ result[d] = "nil" /\ pre[d].age = "expired"
        /\ pre[c].file = pre[d].file
        /\ now - pre[c].file.mtime < 60

\* The order of the positions of a call; "idle" is the return.
Rank(q) ==
    CASE q = "expired" -> 1
      [] q = "remove" -> 2
      [] q \in {"open", "now"} -> 3
      [] q \in {"close", "chtimes"} -> 4
      [] q = "idle" -> 5

\* C10: a call never waits and never goes back: a caller inside a call can
\* always take its next step whatever the others do, every step moves the
\* call forward (so it makes at most one stat, one remove and one create or
\* touch), and a Lock that finds the lockfile already created returns
\* ErrLocked at once.
NonBlocking ==
    /\ [](\A c \in Callers : pc[c] # "idle" => ENABLED CallerStep(c))
    /\ [][\A c \in Callers :
            (CallerStep(c) /\ pc[c] # "idle") =>
                /\ Rank(pc'[c]) > Rank(pc[c])
                /\ (pc[c] = "open" /\ fs[Marker(c)].exists) =>
                      (pc'[c] = "idle" /\ result'[c] = "ErrLocked")]_vars

\* A Lock that found no lockfile lost the race to create it and returned
\* ErrLocked.
NonBlockingWitness ==
    \E c \in Callers :
        /\ Did(c, "Lock") /\ pre[c].age = "absent" /\ ~solo[c]
        /\ result[c] = "ErrLocked"

\* C11: a Lock that finds the lockfile younger than the lock duration returns
\* ErrLocked straight from the age test, with no os.Remove and no os.OpenFile,
\* and neither its os.Stat nor the age test changes any file: the call leaves
\* the lockfile and its timestamp as they are.
LiveLockUntouched ==
    [][\A c \in Callers :
         (CallerStep(c) /\ op'[c] = "Lock") =>
            /\ pc[c] \in {"idle", "expired"} => fs' = fs
            /\ (pc[c] = "expired" /\ now - info[c].mtime < Lease(c)) =>
                  /\ pc'[c] = "idle"
                  /\ result'[c] = "ErrLocked"]_vars

\* A Lock was refused while the other caller holds the lock, and the lockfile
\* is as the Lock found it.
LiveLockUntouchedWitness ==
    \E c, d \in Callers :
        /\ c # d /\ Holds(d, Marker(c))
        /\ Did(c, "Lock") /\ solo[c] /\ pre[c].age = "live"
        /\ result[c] = "ErrLocked"
        /\ fs[Marker(c)] = pre[c].file

\* C12: a Refresh that judged the lockfile expired and removed it returns
\* ErrNotLocked in every interleaving, never nil, also when another caller's
\* Lock creates a lockfile between the removal and the os.Chtimes.
ExpiredRefreshFails ==
    \A c \in Callers :
        (Did(c, "Refresh") /\ reclaimed[c]) => result[c] = "ErrNotLocked"

\* C13: a Refresh of a path that is not locked returns ErrNotLocked and
\* leaves no lockfile, and no step of a Refresh creates a file: a lockfile
\* comes into existence only in the os.OpenFile step of a Lock.
RefreshNeverCreates ==
    /\ \A c \in Callers :
          (Did(c, "Refresh") /\ solo[c] /\ pre[c].age = "absent") =>
              result[c] = "ErrNotLocked" /\ fs[Marker(c)] = NoFile
    /\ [][\A m \in Lockfiles :
            (fs[m] = NoFile /\ fs'[m] # NoFile) =>
                \E c \in Callers :
                    /\ op[c] = "Lock" /\ pc[c] = "open" /\ pc'[c] = "close"
                    /\ Marker(c) = m]_vars

\* A Refresh of an unlocked path has returned ErrNotLocked and there is still
\* no lockfile.
RefreshNeverCreatesWitness ==
    \E c \in Callers :
        /\ Did(c, "Refresh") /\ solo[c] /\ pre[c].age = "absent"
        /\ result[c] = "ErrNotLocked"
        /\ fs[Marker(c)] = NoFile

\* C14: after an Unlock that returned nil with no other call at work on the
\* lockfile, there is no lockfile, whatever its age was and whoever created
\* it; and a Lock that starts with no lockfile and is left alone returns nil
\* at once and leaves a newly created lockfile.
UnlockFrees ==
    \A c \in Callers :
        /\ (Did(c, "Unlock") /\ solo[c] /\ result[c] = "nil") =>
               fs[Marker(c)] = NoFile
        /\ (Did(c, "Lock") /\ solo[c] /\ pre[c].age = "absent") =>
               /\ result[c] = "nil"
               /\ fs[Marker(c)] # NoFile
               /\ fs[Marker(c)].born = fs[Marker(c)].mtime

\* Caller d has unlocked a live lockfile, and the Lock that caller c then
\* started on the freed path, before the lock duration had run out, has
\* returned nil.
UnlockFreesWitness ==
    \E c, d \in Callers :
        /\ c # d /\ Marker(c) = Marker(d)
        /\ Did(d, "Unlock") /\ result[d] = "nil" /\ pre[d].age = "live"
        /\ Did(c, "Lock") /\ solo[c] /\ pre[c].age = "absent"
        /\ result[c] = "nil" /\ fs[Marker(c)] # NoFile
        /\ now < lockDur(locker[c])

\* C15: a storage error other than "not found" ends the call at once and is
\* what the call returns: when os.Stat fails, Lock and Refresh return the
\* error with no remove, create or touch and no file is changed; the same
\* holds when os.Remove (in Unlock or in removeIfExpired), os.OpenFile,
\* f.Close or os.Chtimes fails.  The error never becomes nil, ErrLocked or
\* ErrNotLocked.
ErrorsPropagate ==
    [][\A c \in Callers :
         IOError(c) =>
            /\ pc'[c] = "idle"
            /\ result'[c] = "EIO"
            /\ fs' = fs]_vars

\* A Lock on a live lockfile has returned the storage error of its os.Stat,
\* and the lockfile is as it was.
ErrorsPropagateWitness ==
    \E c \in Callers :
        /\ Did(c, "Lock") /\ solo[c] /\ result[c] = "EIO"
        /\ pre[c].age = "live" /\ ~Expired(locker[c], pre[c].file, now)
        /\ fs[Marker(c)] = pre[c].file

\* C16: in every interleaving of Lock and Refresh calls, the os.Remove of
\* removeIfExpired deletes only a lockfile that is expired at the moment of
\* the removal: a lockfile created or refreshed after the caller's os.Stat
\* is not deleted.
RemoveOnlyExpired ==
    [][\A c \in Callers :
         (pc[c] = "remove" /\ fs[Marker(c)] # NoFile /\ fs'[Marker(c)] = NoFile
            /\ pc'[c] # "remove") =>
                Expired(locker[c], fs[Marker(c)], now)]_vars

\* The Lock call of caller c has created its lockfile and has not returned
\* yet: position "close" is entered only by the creating os.OpenFile.
Created(c) == op[c] = "Lock" /\ pc[c] = "close"

\* C17: a Lock that returns a failure (ErrLocked or a storage error, the
\* error of f.Close included) has not created a lockfile: a call that has
\* created one and leaves it in place returns nil.
FailedLockCreatesNothing ==
    [][\A c \in Callers :
         (Created(c) /\ pc'[c] = "idle" /\ fs'[Marker(c)] # NoFile) =>
             result'[c] = "nil"]_vars
====
